---- MODULE Spec2Model ----
(***************************************************************************)
(* Query-to-decision pipeline of the insurance assistant:                  *)
(*   query_parser.py    QueryParser.parse_query / enhance_for_retrieval /  *)
(*                      process_query, parse_insurance_query               *)
(*   main.py            query_rag_system, process_insurance_query          *)
(*   retriever.py       retrieve_clauses                                   *)
(*   decision_engine.py InsuranceDecisionEngine.make_decision,             *)
(*                      get_decision_summary                               *)
(*   api.py             claim_decision_endpoint                            *)
(*                                                                         *)
(* One request is handled at a time.  Every call of an external service    *)
(* (the text-generation chain, the similarity-search index) answers        *)
(* nondeterministically: it raises, or it returns one of a bounded set of  *)
(* values.  Python values are tagged records (Null, Num, Str, List);       *)
(* dicts are functions from key strings to values.  Free text (queries,    *)
(* search phrases, lines of a response) is a sequence of characters.       *)
(***************************************************************************)
EXTENDS Integers, Sequences, FiniteSets, TLC

VARIABLES
    pc,        \* position of the handler in flight: "idle", a step label, or "done"
    op,        \* the entry point that was called for the request in flight
    req,       \* its arguments: [query, patient_data]
    ext,       \* what the external services did during the request
    parsed,    \* parser flows: the dict built by parse_query / process_query
    rag,       \* query_rag_system locals
    md,        \* make_decision locals
    cd,        \* claim_decision_endpoint locals
    ret        \* the outcome handed to the caller: returned value or raised error

vars == <<pc, op, req, ext, parsed, rag, md, cd, ret>>

----------------------------------------------------------------------------
(* Bounds of the model *)

\* longest keyword list the structuring response holds
MaxKeywords == 2
\* most lines the enhancement response holds
MaxLines == 3
\* number of distinct clause texts in the index
NumClauses == 3

----------------------------------------------------------------------------
(* Constants of the program *)

\* search_terms[:3]: phrases searched per question
PhraseLimit == 3
\* query_vectorstore(term, k=2): hits requested per phrase
SearchK == 2
\* unique_docs[:5]: clauses kept for the context
DocLimit == 5
\* search_kwargs "k": hits the retriever requests
RetrieverK == 5

----------------------------------------------------------------------------
(* Python values *)

Null == [t |-> "null"]
Num(n) == [t |-> "num", v |-> n]
Str(s) == [t |-> "str", v |-> s]
List(s) == [t |-> "list", v |-> s]

EmptyDict == <<>>
\* dict.get(k, default)
Get(d, k, default) == IF k \in DOMAIN d THEN d[k] ELSE default
\* d[k] = v
Put(d, k, v) == [x \in (DOMAIN d) \cup {k} |-> IF x = k THEN v ELSE d[x]]

Returned(v) == [kind |-> "return", value |-> v]
Raised(e) == [kind |-> "raise", error |-> e]
NoOutcome == [kind |-> "none"]

----------------------------------------------------------------------------
(* Text *)

\* str.lower() on the characters the model's texts use
LowerChar(c) ==
    CASE c = "A" -> "a" [] c = "C" -> "c" [] c = "E" -> "e" [] c = "G" -> "g"
      [] c = "I" -> "i" [] c = "K" -> "k" [] c = "L" -> "l" [] c = "M" -> "m"
      [] c = "N" -> "n" [] c = "R" -> "r" [] c = "S" -> "s" [] c = "U" -> "u"
      [] c = "Y" -> "y" [] OTHER -> c

Lower(s) == [i \in 1..Len(s) |-> LowerChar(s[i])]

\* sub in s
Contains(s, sub) ==
    \E i \in 1..(Len(s) - Len(sub) + 1) : SubSeq(s, i, i + Len(sub) - 1) = sub

\* str.strip(): leading and trailing blanks removed
Strip(s) ==
    LET idx == {i \in 1..Len(s) : s[i] # " "}
    IN  IF idx = {} THEN <<>>
        ELSE LET lo == CHOOSE i \in idx : \A j \in idx : i <= j
                 hi == CHOOSE i \in idx : \A j \in idx : j <= i
             IN  SubSeq(s, lo, hi)

Range(s) == {s[i] : i \in 1..Len(s)}

\* the orders in which the elements of a set can be listed
AllOrders(S) ==
    {s \in [1..Cardinality(S) -> S] : \A i, j \in 1..Cardinality(S) : s[i] = s[j] => i = j}

\* s[:n]
Take(s, n) == SubSeq(s, 1, IF Len(s) < n THEN Len(s) ELSE n)

----------------------------------------------------------------------------
(* Responses of the text-generation chain.  A response is Throw (the call   *)
(* raised: network error, timeout, quota) or a text.  A text that is scanned *)
(* for JSON is a sequence of tokens: prose, an opening brace, a closing     *)
(* brace, or the members of one JSON object.                                *)

Throw == [k |-> "throw"]
Text(toks) == [k |-> "text", text |-> toks]
Lines(ls) == [k |-> "text", lines |-> ls]
Prose == [k |-> "prose"]
LB == [k |-> "lb"]
RB == [k |-> "rb"]
Body(d) == [k |-> "body", d |-> d]

\* re.search(r'\{.*\}', text, re.DOTALL): from the first "{" to the last "}"
\* after it; <<>> when there is no match
RegexSearch(text) ==
    LET lbs == {i \in 1..Len(text) : text[i].k = "lb"}
        rbs == {i \in 1..Len(text) : text[i].k = "rb"}
    IN  IF lbs = {} \/ rbs = {} THEN <<>>
        ELSE LET first == CHOOSE i \in lbs : \A j \in lbs : i <= j
                 last == CHOOSE i \in rbs : \A j \in rbs : j <= i
             IN  IF first < last THEN SubSeq(text, first, last) ELSE <<>>

\* json.loads of a matched span: the dict, or JSONDecodeError
JsonLoads(span) ==
    IF Len(span) = 2 THEN Returned(EmptyDict)
    ELSE IF Len(span) = 3 /\ span[2].k = "body" THEN Returned(span[2].d)
    ELSE Raised("JSONDecodeError")

----------------------------------------------------------------------------
(* Inputs *)

Q_KneeSurgery == <<"K", "n", "e", "e", " ", "S", "U", "R", "G", "E", "R", "Y">>
Q_MyClaim == <<"M", "y", " ", "C", "l", "a", "i", "m">>
Q_Exclaim == <<"e", "x", "c", "l", "a", "i", "m">>
Q_Premium == <<"p", "r", "e", "m", "i", "u", "m">>
Q_Surgeon == <<"s", "u", "r", "g", "e", "o", "n">>

Queries == {Q_KneeSurgery, Q_MyClaim, Q_Exclaim, Q_Premium, Q_Surgeon}

\* keywords the structuring response may list, in the order it lists them
KeywordSupply ==
    << <<"k", "n", "e", "e">>, <<"c", "o", "v", "e", "r">>, <<"w", "a", "i", "t">> >>

\* lines the enhancement response may hold, in order: a padded phrase, a
\* blank line, a plain phrase, a phrase that repeats the first keyword
LineSupply ==
    << <<" ", "j", "o", "i", "n", "t", " ">>, <<" ", " ">>, <<"e", "x", "c", "l">>,
       <<"k", "n", "e", "e">> >>

\* what the structuring response says about the patient: everything, every
\* field null, or nothing
PatientParts ==
    { [age |-> Num(46), gender |-> Str("M"), procedure |-> Str("knee replacement"),
       location |-> Str("Pune"), policy_duration_months |-> Num(3)],
      [age |-> Null, gender |-> Null, procedure |-> Null, location |-> Null,
       policy_duration_months |-> Null],
      EmptyDict }

\* query_type: left out, null, inside the enum, outside the enum
QueryTypeParts ==
    {EmptyDict, [query_type |-> Null]}
        \cup {[query_type |-> Str(t)] : t \in {"claim", "general", "billing"}}

\* keywords: left out, null, or a list of 0..MaxKeywords phrases
KeywordParts ==
    {EmptyDict, [keywords |-> Null]}
        \cup {[keywords |-> List(Take(KeywordSupply, n))] : n \in 0..MaxKeywords}

StructObjects == {p @@ t @@ k : p \in PatientParts, t \in QueryTypeParts, k \in KeywordParts}

\* texts with no "{...}" in them
NoJsonTexts == {<<>>, <<Prose>>, <<RB, Prose, LB>>}
\* texts whose "{...}" span is not JSON: prose in braces, and two objects
\* with prose between them (the span runs from the first "{" to the last "}")
BadJsonTexts(d) == {<<LB, Prose, RB>>, <<LB, Body(d), RB, Prose, LB, Body(d), RB>>}

StructResponses ==
    {Throw}
        \cup {Text(t) : t \in NoJsonTexts \cup BadJsonTexts(EmptyDict) \cup {<<LB, RB>>}}
        \cup {Text(<<Prose, LB, Body(d), RB, Prose>>) : d \in StructObjects}

EnhanceResponses == {Throw} \cup {Lines(Take(LineSupply, n)) : n \in 0..MaxLines}

\* how a response reads to "re.search + json.loads"
ResponseKind(resp) ==
    IF resp.k = "throw" THEN "throw"
    ELSE IF RegexSearch(resp.text) = <<>> THEN "no_json"
    ELSE IF JsonLoads(RegexSearch(resp.text)).kind = "raise" THEN "bad_json"
    ELSE "json"

----------------------------------------------------------------------------
(* query_parser.py *)

\* a slip in the literal: the fallback loses the original query as keyword
FallbackStructureNoKeywords(query) ==
    [age |-> Null, gender |-> Null, procedure |-> Null, location |-> Null,
     policy_duration_months |-> Null, query_type |-> Str("general"),
     keywords |-> List(<<>>)]

\* the "Fallback structure" literal of parse_query
FallbackStructure(query) ==
    [age |-> Null, gender |-> Null, procedure |-> Null, location |-> Null,
     policy_duration_months |-> Null, query_type |-> Str("general"),
     keywords |-> List(<<query>>)]

\* the dict parse_query returns from its except block
ErrorStructure(query) ==
    [original_query |-> Str(query), age |-> Null, gender |-> Null, procedure |-> Null,
     location |-> Null, policy_duration_months |-> Null, query_type |-> Str("general"),
     keywords |-> List(<<query>>)]

\* QueryParser.parse_query(query), the structuring chain answering sresp
parse_query(query, sresp) ==
    IF sresp.k = "throw" THEN ErrorStructure(query)
    ELSE LET json_match == RegexSearch(sresp.text)
         IN  IF json_match # <<>>
             THEN LET loaded == JsonLoads(json_match)
                  IN  IF loaded.kind = "raise" THEN ErrorStructure(query)
                      ELSE Put(loaded.value, "original_query", Str(query))
             ELSE Put(FallbackStructure(query), "original_query", Str(query))

\* the non-blank lines of the enhancement response, stripped
ExtractPhrases(lines) ==
    SelectSeq([i \in 1..Len(lines) |-> Strip(lines[i])], LAMBDA l : l # <<>>)

\* the value enhance_for_retrieval returns from its except block
EnhanceFallback(parsed_query) ==
    Get(parsed_query, "keywords", List(<<parsed_query["original_query"].v>>))

\* QueryParser.enhance_for_retrieval(parsed_query), the enhancement chain
\* answering eresp: the set of values it can return (list(set(...)) lists the
\* phrases in any order)
enhance_for_retrieval(parsed_query, eresp) ==
    IF eresp.k = "throw" THEN {EnhanceFallback(parsed_query)}
    ELSE LET phrases == ExtractPhrases(eresp.lines)
             keywords == Get(parsed_query, "keywords", List(<<>>))
         IN  IF keywords.t # "list"
             THEN {EnhanceFallback(parsed_query)}      \* None + list: TypeError
             ELSE {List(o) : o \in AllOrders(Range(keywords.v \o phrases))}

\* QueryParser.process_query(query): the set of dicts it can return
process_query(query, sresp, eresp) ==
    LET structured_data == parse_query(query, sresp)
    IN  {Put(structured_data, "enhanced_search_phrases", e) :
            e \in enhance_for_retrieval(structured_data, eresp)}

\* parse_insurance_query(query)
parse_insurance_query(query, sresp, eresp) == process_query(query, sresp, eresp)

----------------------------------------------------------------------------
(* The similarity-search index.  A clause text is a number in              *)
(* 1..NumClauses.  A call raises (index unreachable) or returns hits.       *)

ClauseTexts == 1..NumClauses

Min(a, b) == IF a < b THEN a ELSE b

SeqsUpTo(S, n) == UNION {[1..m -> S] : m \in 0..n}

IndexRaise == [k |-> "raise"]
Hits(cs) == [k |-> "hits", contents |-> cs]

\* query_vectorstore(term, k=2): up to k documents; two documents (chunks)
\* may hold the same text
SearchResponses == {IndexRaise} \cup {Hits(cs) : cs \in SeqsUpTo(ClauseTexts, SearchK)}

\* retriever.get_relevant_documents(query): up to k distinct chunks
RetrieverResponses ==
    {IndexRaise}
        \cup {Hits(cs) : cs \in {s \in SeqsUpTo(ClauseTexts, Min(RetrieverK, NumClauses)) :
                                    \A i, j \in 1..Len(s) : s[i] = s[j] => i = j}}

\* retrieve_clauses(query): the page contents, or the index's error
retrieve_clauses(r) == IF r.k = "raise" THEN Raised("IndexError") ELSE Returned(r.contents)

----------------------------------------------------------------------------
(* main.py: query_rag_system *)

\* the Document objects of the hits of the n-th search
Documents(contents, n) == [i \in 1..Len(contents) |-> [page_content |-> contents[i], search |-> n]]

\* a dict that moved a key to the end when it is set again
RECURSIVE DictByContentLastSeen(_)
DictByContentLastSeen(docs) ==
    IF docs = <<>> THEN <<>>
    ELSE LET sofar == DictByContentLastSeen(SubSeq(docs, 1, Len(docs) - 1))
             doc == docs[Len(docs)]
         IN  Append(SelectSeq(sofar, LAMBDA d : d.page_content # doc.page_content), doc)

\* {doc.page_content: doc for doc in all_results}: a dict keeps a key at the
\* position of its first insertion and the value of its last
RECURSIVE DictByContent(_)
DictByContent(docs) ==
    IF docs = <<>> THEN <<>>
    ELSE LET sofar == DictByContent(SubSeq(docs, 1, Len(docs) - 1))
             doc == docs[Len(docs)]
         IN  IF \E i \in 1..Len(sofar) : sofar[i].page_content = doc.page_content
             THEN [i \in 1..Len(sofar) |->
                      IF sofar[i].page_content = doc.page_content THEN doc ELSE sofar[i]]
             ELSE Append(sofar, doc)

\* list({...}.values())[:5]
UniqueDocs(all_results) == Take(DictByContent(all_results), DocLimit)

\* [doc.page_content for doc in unique_docs], the lines of the context
Context(unique_docs) == [i \in 1..Len(unique_docs) |-> unique_docs[i].page_content]

\* the answer-generation step the source leaves open ("Your LLM generation
\* logic here"): one text-generation call over the context
AnswerResponses == {Throw, [k |-> "text", answer |-> Str("answer")]}

\* the test without .lower()
ClaimTriggerCaseSensitive(query) ==
    \/ Contains(query, <<"c", "l", "a", "i", "m">>)
    \/ Contains(query, <<"s", "u", "r", "g", "e", "r", "y">>)

\* "claim" in query.lower() or "surgery" in query.lower()
ClaimTrigger(query) ==
    \/ Contains(Lower(query), <<"c", "l", "a", "i", "m">>)
    \/ Contains(Lower(query), <<"s", "u", "r", "g", "e", "r", "y">>)

----------------------------------------------------------------------------
(* decision_engine.py *)

\* patient_data as a caller passes it: none, an empty dict, complete dicts,
\* and a dict that lacks fields
PatientInputs ==
    { Null, EmptyDict,
      [age |-> Num(46), gender |-> Str("M"), procedure |-> Str("knee replacement"),
       location |-> Str("Pune"), duration |-> Num(3)],
      [age |-> Num(60), gender |-> Str("F"), procedure |-> Str("cataract surgery"),
       location |-> Str("Delhi"), duration |-> Num(30)],
      [age |-> Num(46), procedure |-> Str("knee replacement")] }

\* "if not patient_data"
Falsy(patient_data) == patient_data = Null \/ patient_data = EmptyDict

\* the patient_data dict built from the parsed query
PatientFromParsed(parsed_query) ==
    [age |-> Get(parsed_query, "age", Str("Unknown")),
     gender |-> Get(parsed_query, "gender", Str("Unknown")),
     procedure |-> Get(parsed_query, "procedure", Str("Unknown")),
     location |-> Get(parsed_query, "location", Str("Unknown")),
     duration |-> Get(parsed_query, "policy_duration_months", Str("Unknown"))]

PromptFields == {"age", "gender", "procedure", "location", "duration"}

\* JSON objects the decision response may hold
DecisionObjects ==
    { [decision |-> Str(d), amount |-> a, justification |-> Str("as per clause"),
       risk_factors |-> List(<<>>), coverage_status |-> Str(c)] :
        d \in {"APPROVED", "REJECTED"}, a \in {Null, Num(50000)},
        c \in {"full", "partial", "none"} }
        \cup {[decision |-> Str("APPROVED")]}

DecisionResponses ==
    {Throw}
        \cup {Text(t) : t \in NoJsonTexts \cup BadJsonTexts(EmptyDict)}
        \cup {Text(<<Prose, LB, Body(d), RB, Prose>>) : d \in DecisionObjects}

\* the "Fallback response" literal of make_decision
FallbackDecision ==
    [decision |-> Str("REJECTED"), amount |-> Null,
     justification |-> Str("Unable to process claim - insufficient policy information"),
     risk_factors |-> List(<<"Processing error">>), coverage_status |-> Str("none")]

\* the dict make_decision returns from its except block
ErrorDecision(patient_data, query, e) ==
    [decision |-> Str("REJECTED"), amount |-> Null,
     justification |-> Str("System error: " \o e),
     risk_factors |-> List(<<"System error">>), coverage_status |-> Str("none"),
     patient_details |-> IF Falsy(patient_data) THEN EmptyDict ELSE patient_data,
     query |-> Str(query), error |-> Str(e)]

\* lines 81-102: the decision chain answering dresp; the dict decision_data,
\* or the error that sends make_decision to its except block
GenerateDecision(patient_data, dresp) ==
    IF ~(PromptFields \subseteq DOMAIN patient_data) THEN Raised("KeyError")
    ELSE IF dresp.k = "throw" THEN Raised("LLMError")
    ELSE LET json_match == RegexSearch(dresp.text)
         IN  IF json_match # <<>> THEN JsonLoads(json_match)
             ELSE Returned(FallbackDecision)

\* lines 104-109: the metadata added to decision_data
AddMetadata(decision_data, patient_data, query, clauses) ==
    Put(Put(Put(decision_data, "patient_details", patient_data), "query", Str(query)),
        "clauses_count", Num(Len(clauses)))

\* a digit as text
Digit(d) ==
    CASE d = 0 -> "0" [] d = 1 -> "1" [] d = 2 -> "2" [] d = 3 -> "3" [] d = 4 -> "4"
      [] d = 5 -> "5" [] d = 6 -> "6" [] d = 7 -> "7" [] d = 8 -> "8" [] d = 9 -> "9"

\* format(n, ","): the decimal digits of n >= 0, grouped in thousands
RECURSIVE FormatAmount(_)
FormatAmount(n) ==
    IF n < 10 THEN Digit(n)
    ELSE IF n < 100 THEN Digit(n \div 10) \o Digit(n % 10)
    ELSE IF n < 1000 THEN Digit(n \div 100) \o Digit((n \div 10) % 10) \o Digit(n % 10)
    ELSE FormatAmount(n \div 1000) \o "," \o Digit((n % 1000) \div 100)
             \o Digit((n \div 10) % 10) \o Digit(n % 10)

\* the pieces of the two summary texts (their leading mark left out)
ApprovedLead == "CLAIM APPROVED - Amount: "
RejectedLead == "CLAIM REJECTED - "

\* InsuranceDecisionEngine.get_decision_summary(decision): the text, in its
\* pieces, or the error the f-string raises (a missing key; an amount that
\* "," cannot format: None, a list, a string)
get_decision_summary(decision) ==
    IF "decision" \notin DOMAIN decision THEN Raised("KeyError")
    ELSE IF decision.decision = Str("APPROVED")
    THEN IF "amount" \notin DOMAIN decision THEN Raised("KeyError")
         ELSE IF decision.amount.t = "str" THEN Raised("ValueError")
         ELSE IF decision.amount.t # "num" THEN Raised("TypeError")
         ELSE IF "justification" \notin DOMAIN decision THEN Raised("KeyError")
         ELSE Returned(Str(<<ApprovedLead, FormatAmount(decision.amount.v), " | ",
                             decision.justification.v>>))
    ELSE IF "justification" \notin DOMAIN decision THEN Raised("KeyError")
         ELSE Returned(Str(<<RejectedLead, decision.justification.v>>))

----------------------------------------------------------------------------
(* State *)

Entry ==
    {"parse_query", "process_query", "process_insurance_query", "make_decision",
     "claim_decision"}

\* nothing observed yet: kinds of the structuring, enhancement and decision
\* responses, whether the index answered or raised, and the query_type the
\* extraction of query_rag_system assigned
Unset == [t |-> "unset"]
Absent == [t |-> "absent"]
NoExt ==
    [struct |-> "none", enhance |-> "none", decision |-> "none", index |-> "none",
     query_type |-> Unset]
NoParsed == EmptyDict
NoRag == EmptyDict
NoMd == EmptyDict
\* claim_decision_endpoint: no call of make_decision has returned
NoCd == [calls |-> 0, decision |-> Unset, summarised |-> Unset, summary |-> NoOutcome]

Init ==
    /\ pc = "idle"
    /\ op = "none"
    /\ req = [query |-> <<>>, patient_data |-> Null]
    /\ ext = NoExt
    /\ parsed = NoParsed
    /\ rag = NoRag
    /\ md = NoMd
    /\ cd = NoCd
    /\ ret = NoOutcome

\* first step of entry point o
FirstStep(o) ==
    CASE o = "process_insurance_query" -> "rag_parse"
      [] o \in {"make_decision", "claim_decision"} -> "md_resolve"
      [] OTHER -> o

\* a caller invokes entry point o
Call(o, q, pdIn) ==
    /\ pc = "idle"
    /\ pc' = FirstStep(o)
    /\ op' = o
    /\ req' = [query |-> q, patient_data |-> pdIn]
    /\ ext' = NoExt
    /\ parsed' = NoParsed
    /\ rag' = NoRag
    /\ md' = IF o \in {"make_decision", "claim_decision"}
             THEN [patient_data |-> pdIn] ELSE NoMd
    /\ cd' = NoCd
    /\ ret' = NoOutcome

\* QueryParser.parse_query
ParseQuery ==
    /\ pc = "parse_query"
    /\ \E sresp \in StructResponses :
        /\ parsed' = parse_query(req.query, sresp)
        /\ ext' = [ext EXCEPT !.struct = ResponseKind(sresp)]
    /\ ret' = Returned(parsed')
    /\ pc' = "done"
    /\ UNCHANGED <<op, req, rag, md, cd>>

\* QueryParser.process_query / parse_insurance_query
ProcessQuery ==
    /\ pc = "process_query"
    /\ \E sresp \in StructResponses, eresp \in EnhanceResponses :
        /\ parsed' \in process_query(req.query, sresp, eresp)
        /\ ext' = [ext EXCEPT !.struct = ResponseKind(sresp), !.enhance = eresp.k]
    /\ ret' = Returned(parsed')
    /\ pc' = "done"
    /\ UNCHANGED <<op, req, rag, md, cd>>

\* query_rag_system, lines 128-129: parse and enhance the question
RagParse ==
    /\ pc = "rag_parse"
    /\ \E sresp \in StructResponses, eresp \in EnhanceResponses :
        \E parsed_query \in parse_insurance_query(req.query, sresp, eresp) :
            /\ rag' = [search_terms |-> parsed_query["enhanced_search_phrases"]]
            /\ ext' = [ext EXCEPT !.query_type = Get(parsed_query, "query_type", Absent)]
    /\ pc' = "rag_slice"
    /\ UNCHANGED <<op, req, parsed, md, ret, cd>>

\* query_rag_system, lines 132-133: all_results = [], search_terms[:3].
\* None[:3] raises; nothing in query_rag_system or process_insurance_query
\* catches.  Which phrases are left does not change what the index may
\* answer, so the loop keeps their number.
RagSlice ==
    /\ pc = "rag_slice"
    /\ IF rag.search_terms.t # "list"
       THEN /\ ret' = Raised("TypeError")
            /\ pc' = "done"
            /\ rag' = NoRag
       ELSE /\ rag' = [pending |-> Len(Take(rag.search_terms.v, PhraseLimit)),
                       searched |-> 0, all_results |-> <<>>]
            /\ pc' = "rag_loop"
            /\ UNCHANGED ret
    /\ UNCHANGED <<op, req, ext, parsed, md, cd>>

\* query_rag_system, lines 133-135: one pass of the search loop
RagSearchTerm ==
    /\ pc = "rag_loop"
    /\ rag.pending > 0
    /\ \E r \in SearchResponses :
        IF r.k = "raise"
        THEN /\ ret' = Raised("IndexError")
             /\ pc' = "done"
             /\ ext' = [ext EXCEPT !.index = "raise"]
             /\ UNCHANGED rag
        ELSE /\ rag' = [rag EXCEPT !.pending = @ - 1, !.searched = @ + 1,
                            !.all_results = @ \o Documents(r.contents, rag.searched + 1)]
             /\ ext' = [ext EXCEPT !.index = "ok"]
             /\ UNCHANGED <<pc, ret>>
    /\ UNCHANGED <<op, req, parsed, md, cd>>

\* query_rag_system, lines 138-144: deduplicate, build the context, generate
\* the answer and return it to process_insurance_query
RagFinish ==
    /\ pc = "rag_loop"
    /\ rag.pending = 0
    /\ \E aresp \in AnswerResponses :
        /\ rag' = [all_results |-> rag.all_results,
                   unique_docs |-> UniqueDocs(rag.all_results),
                   context |-> Context(UniqueDocs(rag.all_results)),
                   searched |-> rag.searched,
                   answer |-> IF aresp.k = "throw" THEN Null ELSE aresp.answer]
        /\ IF aresp.k = "throw"
           THEN /\ ret' = Raised("LLMError")
                /\ pc' = "done"
           ELSE /\ pc' = "piq_route"
                /\ UNCHANGED ret
    /\ UNCHANGED <<op, req, ext, parsed, md, cd>>

\* process_insurance_query, lines 152-163: the lexical trigger selects the flow
PiqRoute ==
    /\ pc = "piq_route"
    /\ IF ClaimTrigger(req.query)
       THEN /\ pc' = "md_resolve"                      \* process_claim_decision(query)
            /\ md' = [patient_data |-> Null]
            /\ UNCHANGED ret
       ELSE /\ ret' = Returned([answer |-> rag.answer, type |-> Str("general_query")])
            /\ pc' = "done"
            /\ UNCHANGED md
    /\ rag' = [answer |-> rag.answer]
    /\ UNCHANGED <<op, req, ext, parsed, cd>>

\* what the caller of make_decision does with the dict it returns:
\* process_claim_decision hands it on; process_insurance_query wraps it
\* (lines 154-158)
DecisionOutcome(decision) ==
    IF op = "process_insurance_query"
    THEN Returned([answer |-> rag.answer, decision |-> decision,
                   type |-> Str("claim_processing")])
    ELSE Returned(decision)

\* the fields of a decision that the endpoint's summary is about; the
\* endpoint's locals keep these of the dicts make_decision returned
Outcome(decision) ==
    [f \in DOMAIN decision \cap {"decision", "amount", "justification", "coverage_status"}
        |-> decision[f]]

\* make_decision returns decision: to the caller of the entry point, or to
\* claim_decision_endpoint, which calls it at line 52 (process_claim_decision)
\* and again through get_decision_summary (line 53, decision_engine.py:149)
Deliver(decision) ==
    IF op # "claim_decision"
    THEN /\ ret' = DecisionOutcome(decision)
         /\ pc' = "done"
         /\ UNCHANGED cd
    ELSE IF cd.calls = 0
    THEN /\ cd' = [cd EXCEPT !.calls = 1, !.decision = Outcome(decision)]
         /\ pc' = "cd_second"
         /\ UNCHANGED ret
    ELSE /\ cd' = [cd EXCEPT !.calls = 2, !.summarised = Outcome(decision)]
         /\ pc' = "cd_summary"
         /\ UNCHANGED ret

\* make_decision, lines 67-75: patient details from the query when the
\* caller gave none
MdResolve ==
    /\ pc = "md_resolve"
    /\ IF Falsy(md.patient_data)
       THEN \E sresp \in StructResponses, eresp \in EnhanceResponses :
                \E parsed_query \in parse_insurance_query(req.query, sresp, eresp) :
                    md' = [patient_data |-> PatientFromParsed(parsed_query)]
       ELSE UNCHANGED md
    /\ pc' = "md_retrieve"
    /\ UNCHANGED <<op, req, ext, parsed, rag, ret, cd>>

\* make_decision, line 78: retrieve the clauses for the prompt; an error of
\* the index goes to the except block (lines 111-122)
MdRetrieve ==
    /\ pc = "md_retrieve"
    /\ \E r \in RetrieverResponses :
        LET clauses == retrieve_clauses(r)
        IN  IF clauses.kind = "raise"
            THEN /\ Deliver(ErrorDecision(md.patient_data, req.query, clauses.error))
                 /\ ext' = [ext EXCEPT !.index = "raise"]
                 /\ UNCHANGED md
            ELSE /\ md' = [patient_data |-> md.patient_data, clauses |-> clauses.value]
                 /\ pc' = "md_generate"
                 /\ ext' = [ext EXCEPT !.index = "ok"]
                 /\ UNCHANGED <<ret, cd>>
    /\ UNCHANGED <<op, req, parsed, rag>>

\* make_decision, lines 81-102: run the decision chain on the prompt and
\* parse its response.  The clauses are in the prompt; their number stays.
MdGenerate ==
    /\ pc = "md_generate"
    /\ \E dresp \in DecisionResponses :
        LET decision_data == GenerateDecision(md.patient_data, dresp)
            called == PromptFields \subseteq DOMAIN md.patient_data
        IN  /\ ext' = IF called THEN [ext EXCEPT !.decision = ResponseKind(dresp)] ELSE ext
            /\ IF decision_data.kind = "raise"
               THEN /\ Deliver(ErrorDecision(md.patient_data, req.query,
                                          decision_data.error))
                    /\ md' = IF called
                             THEN [patient_data |-> md.patient_data,
                                   prompt_clauses |-> Len(md.clauses)]
                             ELSE [patient_data |-> md.patient_data]
               ELSE /\ md' = [patient_data |-> md.patient_data,
                              prompt_clauses |-> Len(md.clauses),
                              decision_data |-> decision_data.value]
                    /\ pc' = "md_count"
                    /\ UNCHANGED <<ret, cd>>
    /\ UNCHANGED <<op, req, parsed, rag>>

\* make_decision, lines 104-109: add the metadata (the clauses are
\* retrieved again for the count) and return
MdCount ==
    /\ pc = "md_count"
    /\ \E r \in RetrieverResponses :
        LET clauses == retrieve_clauses(r)
        IN  /\ IF clauses.kind = "raise"
               THEN /\ Deliver(ErrorDecision(md.patient_data, req.query, clauses.error))
                    /\ ext' = [ext EXCEPT !.index = "raise"]
               ELSE /\ Deliver(AddMetadata(md.decision_data, md.patient_data, req.query,
                                           clauses.value))
                    /\ UNCHANGED ext
    /\ UNCHANGED <<op, req, parsed, rag, md>>

\* claim_decision_endpoint, line 53: get_decision_summary(query,
\* patient_data) calls process_claim_decision again (decision_engine.py:149)
CdSecond ==
    /\ pc = "cd_second"
    /\ md' = [patient_data |-> req.patient_data]
    /\ ext' = NoExt
    /\ pc' = "md_resolve"
    /\ UNCHANGED <<op, req, parsed, rag, cd, ret>>

\* decision_engine.py:150 and claim_decision_endpoint, lines 55-59: the
\* summary of the second decision, and the response; an error of the
\* summary leaves the endpoint
CdSummary ==
    /\ pc = "cd_summary"
    /\ LET summary == get_decision_summary(cd.summarised)
       IN  /\ cd' = [cd EXCEPT !.summary = summary]
           /\ ret' = IF summary.kind = "raise" THEN summary
                     ELSE Returned([decision |-> cd.decision, summary |-> summary.value,
                                    status |-> Str("success")])
    /\ pc' = "done"
    /\ UNCHANGED <<op, req, ext, parsed, rag, md>>

\* the caller takes the outcome; the request's values are dropped
Respond ==
    /\ pc = "done"
    /\ pc' = "idle"
    /\ op' = "none"
    /\ req' = [query |-> <<>>, patient_data |-> Null]
    /\ ext' = NoExt
    /\ parsed' = NoParsed
    /\ rag' = NoRag
    /\ md' = NoMd
    /\ cd' = NoCd
    /\ ret' = NoOutcome

Next ==
    \/ \E o \in Entry, q \in Queries, pdIn \in PatientInputs :
          Call(o, q, IF o \in {"make_decision", "claim_decision"} THEN pdIn ELSE Null)
    \/ ParseQuery
    \/ ProcessQuery
    \/ RagParse
    \/ RagSlice
    \/ RagSearchTerm
    \/ RagFinish
    \/ PiqRoute
    \/ MdResolve
    \/ MdRetrieve
    \/ MdGenerate
    \/ MdCount
    \/ CdSecond
    \/ CdSummary
    \/ Respond

Spec == Init /\ [][Next]_vars

----------------------------------------------------------------------------
(* Two runs of query_rag_system over one expansion: the same question, the   *)
(* same answers of the structuring and enhancement chains, and an index that *)
(* answers a phrase the same way whenever it is searched.  The runs differ   *)
(* in the order in which list(set(...)) lists the phrases.                   *)

\* structuring responses that differ in what they say about the keywords
OrderStructResponses ==
    {Throw} \cup {Text(<<Prose, LB, Body(k), RB, Prose>>) : k \in KeywordParts}

\* what the index answers to a phrase here: it raises, or returns up to k
\* chunks of different texts, listed by clause number
OrderSearchResponses ==
    {r \in SearchResponses :
        r.k = "hits" => \A i, j \in 1..Len(r.contents) : i < j => r.contents[i] < r.contents[j]}

\* the locals of a run before its first line
NewRun(expansion, index, first) ==
    [expansion |-> expansion, index |-> index, first |-> first,
     search_terms |-> Unset, pending |-> <<>>, searched |-> {}, all_results |-> <<>>]

InitOrder ==
    /\ pc = "ord_parse"
    /\ op = "first_run"
    /\ req = [query |-> Q_Premium, patient_data |-> Null]
    /\ ext = NoExt
    /\ \E sresp \in OrderStructResponses, eresp \in EnhanceResponses :
        /\ parsed = parse_query(Q_Premium, sresp)
        /\ rag = NewRun(enhance_for_retrieval(parse_query(Q_Premium, sresp), eresp),
                        EmptyDict, NoOutcome)
    /\ md = NoMd
    /\ cd = NoCd
    /\ ret = NoOutcome

\* a run ends with outcome; the second run starts after the first, against
\* the same index
EndRun(outcome, index) ==
    IF op = "first_run"
    THEN /\ op' = "second_run"
         /\ pc' = "ord_parse"
         /\ rag' = NewRun(rag.expansion, index, outcome)
         /\ UNCHANGED ret
    ELSE /\ pc' = "ord_done"
         /\ rag' = NewRun(rag.expansion, index, rag.first)
         /\ ret' = outcome
         /\ UNCHANGED op

\* query_rag_system, lines 128-129: search_terms is the expansion, its
\* phrases listed in one of the orders list(set(...)) can give
OrdParse ==
    /\ pc = "ord_parse"
    /\ \E terms \in rag.expansion : rag' = [rag EXCEPT !.search_terms = terms]
    /\ pc' = "ord_slice"
    /\ UNCHANGED <<op, req, ext, parsed, md, ret, cd>>

\* query_rag_system, lines 132-133: all_results = [], search_terms[:3]
OrdSlice ==
    /\ pc = "ord_slice"
    /\ IF rag.search_terms.t # "list"
       THEN EndRun(Raised("TypeError"), rag.index)
       ELSE /\ rag' = [rag EXCEPT !.pending = Take(rag.search_terms.v, PhraseLimit),
                                  !.search_terms = Unset]
            /\ pc' = "ord_loop"
            /\ UNCHANGED <<op, ret>>
    /\ UNCHANGED <<req, ext, parsed, md, cd>>

\* query_rag_system, lines 133-135: search the next phrase; the index
\* answers as it did when the phrase was searched before
OrdSearch ==
    /\ pc = "ord_loop"
    /\ rag.pending # <<>>
    /\ LET term == Head(rag.pending)
       IN  \E r \in OrderSearchResponses :
            /\ term \in DOMAIN rag.index => r = rag.index[term]
            /\ IF r.k = "raise"
               THEN EndRun(Raised("IndexError"), Put(rag.index, term, r))
               ELSE /\ rag' = [rag EXCEPT
                                 !.index = Put(@, term, r),
                                 !.pending = Tail(@),
                                 !.searched = @ \cup {term},
                                 !.all_results =
                                     @ \o Documents(r.contents, Cardinality(rag.searched) + 1)]
                    /\ UNCHANGED <<pc, op, ret>>
    /\ UNCHANGED <<req, ext, parsed, md, cd>>

\* query_rag_system, lines 138-141: the clauses of the run, deduplicated
OrdFinish ==
    /\ pc = "ord_loop"
    /\ rag.pending = <<>>
    /\ EndRun(Returned([searched |-> rag.searched,
                        clauses |-> Range(Context(UniqueDocs(rag.all_results)))]),
              rag.index)
    /\ UNCHANGED <<req, ext, parsed, md, cd>>

NextOrder ==
    \/ OrdParse
    \/ OrdSlice
    \/ OrdSearch
    \/ OrdFinish

SpecOrder == InitOrder /\ [][NextOrder]_vars

----------------------------------------------------------------------------
(* Properties *)

\* make_decision has returned, to its caller or through process_insurance_query
MadeDecision ==
    /\ pc = "done"
    /\ ret.kind = "return"
    /\ \/ op = "make_decision"
       \/ op = "process_insurance_query" /\ "decision" \in DOMAIN ret.value

\* the dict make_decision returned
TheDecision == IF op = "make_decision" THEN ret.value ELSE ret.value.decision

\* the decision rules the prompt of the engine declares (lines 41-44):
\* months of cover under which knee/joint replacement is not covered
HardRuleMonths == 24
KneeJointProcedures == {"knee replacement", "joint replacement", "knee surgery"}
FlaggedEmergency(query) ==
    Contains(Lower(query), <<"e", "m", "e", "r", "g", "e", "n", "c", "y">>)

\* the request falls under the hard rule: knee/joint procedure, cover under
\* 24 months, no emergency
HardRuleApplies ==
    LET pd == md.patient_data
    IN  /\ {"procedure", "duration"} \subseteq DOMAIN pd
        /\ pd.procedure.t = "str" /\ pd.procedure.v \in KneeJointProcedures
        /\ pd.duration.t = "num" /\ pd.duration.v < HardRuleMonths
        /\ ~FlaggedEmergency(req.query)

\* C1: a decision for a knee/joint-replacement procedure under 24 months of
\* cover and no emergency is REJECTED with coverage none, whatever the
\* decision chain proposed.
C1_HardRuleOverride ==
    (MadeDecision /\ HardRuleApplies)
        => /\ Get(TheDecision, "decision", Null) = Str("REJECTED")
           /\ Get(TheDecision, "coverage_status", Null) = Str("none")

\* C2: in every returned decision coverage none implies REJECTED, and
\* APPROVED implies coverage full or partial.
C2_CoverageOutcome ==
    MadeDecision
        => LET outcome == Get(TheDecision, "decision", Null)
               coverage == Get(TheDecision, "coverage_status", Null)
           IN  /\ coverage = Str("none") => outcome = Str("REJECTED")
               /\ outcome = Str("APPROVED") => coverage \in {Str("full"), Str("partial")}

\* C3: when the decision chain throws or its text holds no parsable JSON
\* object, make_decision returns the one fallback: REJECTED, amount null,
\* coverage none, risk factors exactly ["processing error"].
C3_DeterministicFallback ==
    (MadeDecision /\ ext.decision \in {"throw", "no_json", "bad_json"})
        => /\ Get(TheDecision, "decision", Null) = Str("REJECTED")
           /\ Get(TheDecision, "amount", Absent) = Null
           /\ Get(TheDecision, "coverage_status", Null) = Str("none")
           /\ Get(TheDecision, "risk_factors", Null) = List(<<"processing error">>)

QueryTypes == {"coverage", "exclusion", "claim", "premium", "general"}

\* the parser has returned its record
Extracted == pc = "done" /\ op \in {"parse_query", "process_query"} /\ ret.kind = "return"

\* C4: the record of parse_query / parse_insurance_query always has a
\* query type, one of coverage, exclusion, claim, premium, general.
C4_QueryTypeInEnum ==
    Extracted
        => /\ "query_type" \in DOMAIN ret.value
           /\ ret.value["query_type"] \in {Str(t) : t \in QueryTypes}

\* C5: parse_query returns, and when the structuring call failed or its text
\* holds no parsable JSON the record is the fallback: the five typed fields
\* absent, query type general, keywords [query], original query the input.
C5_ExtractionFallback ==
    (pc = "done" /\ op = "parse_query")
        => /\ ret.kind = "return"
           /\ ext.struct \in {"throw", "no_json", "bad_json"}
                => ret.value =
                      [original_query |-> Str(req.query), age |-> Null, gender |-> Null,
                       procedure |-> Null, location |-> Null,
                       policy_duration_months |-> Null, query_type |-> Str("general"),
                       keywords |-> List(<<req.query>>)]

\* C5 witness: the structuring text held braces around something that is not
\* JSON, and parse_query returned the fallback for "My Claim"
C5_Witness ==
    /\ pc = "done" /\ op = "parse_query" /\ ext.struct = "bad_json"
    /\ req.query = Q_MyClaim
    /\ ret.value["keywords"] = List(<<Q_MyClaim>>)

\* C6: the phrases enhance_for_retrieval returns for a record of parse_query
\* are a non-empty collection that holds every keyword of the record.
C6_ExpansionNonEmpty ==
    (pc = "done" /\ op = "process_query")
        => LET phrases == ret.value["enhanced_search_phrases"]
               keywords == Get(ret.value, "keywords", List(<<>>))
           IN  /\ phrases.t = "list"
               /\ phrases.v # <<>>
               /\ keywords.t = "list" => Range(keywords.v) \subseteq Range(phrases.v)

\* position of the first clause with text c
FirstIndex(contents, c) ==
    CHOOSE i \in 1..Len(contents) :
        contents[i] = c /\ \A j \in 1..(i - 1) : contents[j] # c

\* C7: the clauses query_rag_system keeps are the hits of the searches in
\* search order, one per text, each at the place of its first occurrence;
\* hits [A,B] then [B,C] give [A,B,C].
C7_MergeDedup ==
    "unique_docs" \in DOMAIN rag
        => LET merged == Context(rag.all_results)
               result == rag.context
           IN  /\ \A i, j \in 1..Len(rag.all_results) :
                     i < j => rag.all_results[i].search <= rag.all_results[j].search
               /\ \A i, j \in 1..Len(result) : result[i] = result[j] => i = j
               /\ Range(result) \subseteq Range(merged)
               /\ Len(result) = Min(DocLimit, Cardinality(Range(merged)))
               /\ \A i, j \in 1..Len(result) :
                     i < j => FirstIndex(merged, result[i]) < FirstIndex(merged, result[j])
               /\ \A c \in Range(merged) \ Range(result) : \A i \in 1..Len(result) :
                     FirstIndex(merged, result[i]) < FirstIndex(merged, c)
               /\ merged = <<1, 2, 2, 3>> => result = <<1, 2, 3>>

\* C7 witness: the first search returned [A,B], the second [B,C], and the
\* context is [A,B,C]
C7_Witness ==
    /\ "unique_docs" \in DOMAIN rag
    /\ rag.all_results =
          <<[page_content |-> 1, search |-> 1], [page_content |-> 2, search |-> 1],
            [page_content |-> 2, search |-> 2], [page_content |-> 3, search |-> 2]>>
    /\ rag.context = <<1, 2, 3>>

\* C8: a failure of the index never reaches the caller as an error.
C8_IndexFailureContained ==
    (pc = "done" /\ ext.index = "raise") => ret.kind = "return"

C10_ClauseCountOfPrompt ==
    MadeDecision
        => /\ "clauses_count" \in DOMAIN TheDecision
           /\ "prompt_clauses" \in DOMAIN md
                => TheDecision["clauses_count"] = Num(md.prompt_clauses)


\* the fields of a decision that the decision chain's JSON object supplies
DecisionFields == {"decision", "amount", "justification", "risk_factors", "coverage_status"}

\* the decision chain answered a JSON object that is a valid APPROVED
\* decision: all five fields, outcome APPROVED, coverage full or partial
ValidApprovedJson ==
    /\ ext.decision = "json"
    /\ "decision_data" \in DOMAIN md
    /\ DecisionFields \subseteq DOMAIN md.decision_data
    /\ md.decision_data.decision = Str("APPROVED")
    /\ md.decision_data.coverage_status \in {Str("full"), Str("partial")}

\* 30 months of cover, a standard procedure that no rule excludes, and
\* clauses in the prompt
NoHardRuleCase ==
    /\ {"procedure", "duration"} \subseteq DOMAIN md.patient_data
    /\ md.patient_data.duration = Num(30)
    /\ md.patient_data.procedure = Str("cataract surgery")
    /\ ~HardRuleApplies
    /\ "prompt_clauses" \in DOMAIN md
    /\ md.prompt_clauses > 0

\* C11: with no hard rule applying (30 months, standard procedure, clauses in
\* the prompt) and a valid APPROVED JSON object from the decision chain, the
\* decision make_decision returns has outcome, amount, justification, risk
\* factors and coverage status equal to the object's values.
C11_PassThrough ==
    (MadeDecision /\ NoHardRuleCase /\ ValidApprovedJson)
        => \A f \in DecisionFields :
              f \in DOMAIN TheDecision /\ TheDecision[f] = md.decision_data[f]


\* C12: two runs over the same expansion, its phrases listed in different
\* orders, against an index that answers each phrase the same way, search
\* the same phrases and obtain the same set of clauses, also when the
\* expansion holds more than three phrases.
C12_OrderIndependent ==
    (pc = "ord_done" /\ rag.first.kind = "return" /\ ret.kind = "return")
        => /\ rag.first.value.searched = ret.value.searched
           /\ rag.first.value.clauses = ret.value.clauses


\* claim_decision_endpoint has answered
EndpointReturned == pc = "done" /\ op = "claim_decision" /\ ret.kind = "return"

\* C13: in one /claim-decision request the summary describes the returned
\* decision: it says APPROVED exactly when the "decision" field has outcome
\* APPROVED, and it quotes that decision's amount and justification,
\* whatever the text-generation and search calls answer on successive calls.
C13_SummaryOfDecision ==
    EndpointReturned =>
        LET decision == ret.value.decision
            summary == ret.value.summary.v
            approved == "decision" \in DOMAIN decision
                            /\ decision.decision = Str("APPROVED")
        IN  /\ (summary[1] = ApprovedLead) <=> approved
            /\ approved => /\ {"amount", "justification"} \subseteq DOMAIN decision
                           /\ decision.amount.t = "num"
                           /\ summary[2] = FormatAmount(decision.amount.v)
                           /\ summary[4] = decision.justification.v
            /\ ~approved => /\ "justification" \in DOMAIN decision
                            /\ summary[2] = decision.justification.v

\* C14: get_decision_summary returns a summary string, without raising, for
\* every decision make_decision can return, an APPROVED decision with a null
\* amount and the fallback decisions included.
C14_SummaryTotal ==
    (op = "claim_decision" /\ pc = "done")
        => cd.summary.kind = "return" /\ cd.summary.value.t = "str"

====
